---- MODULE Spec2Model ----
(***************************************************************************)
(* GestureDrawingBoard (src/gesture_typing.py): the run loop, the gesture  *)
(* logic, draw_on_canvas, the key handler and the mouse callback.          *)
(*                                                                         *)
(* One loop iteration ("tick") is two steps: the frame phase (lines        *)
(* 450-520: read, resize, detect, gesture logic, display) and the key      *)
(* phase (lines 523-562: cv2.waitKey and the key handler).  The mouse      *)
(* callback is dispatched by HighGUI inside cv2.waitKey, i.e. between the  *)
(* two.                                                                    *)
(*                                                                         *)
(* Attributes that are written but never read back by the program         *)
(* (is_drawing, prev_hand_pos, frame_count, fps) are left out.             *)
(*                                                                         *)
(* An exception raised in the key phase reaches the top of the loop like   *)
(* the normal end of the phase and is not a step of its own; exceptions    *)
(* of the frame phase are the steps TickError and Frame with shown false.  *)
(*                                                                         *)
(* The canvas is observed at the pixels of SamplePixels; cv2.circle and    *)
(* cv2.line paint the sample pixels their geometry covers (anti-aliasing   *)
(* of the one-pixel rim is not modelled).                                  *)
(***************************************************************************)
EXTENDS Integers, Sequences, FiniteSets, TLC

VARIABLES
    FINGERS_FOR_DRAW,   \* self.FINGERS_FOR_DRAW
    FINGERS_FOR_ERASE,  \* self.FINGERS_FOR_ERASE
    SCREEN_WIDTH,       \* self.SCREEN_WIDTH
    SCREEN_HEIGHT,      \* self.SCREEN_HEIGHT
    cap_opened,         \* self.cap and self.cap.isOpened()
    hands,              \* run(): hands is not None
    mouse_callback,     \* run(): cv2.setMouseCallback was called
    drawing_mode,       \* self.drawing_mode
    current_color,      \* self.current_color
    brush_size,         \* self.brush_size
    eraser_size,        \* self.eraser_size
    canvas,             \* self.canvas
    hand_pos,           \* self.hand_pos
    last_draw_point,    \* self.last_draw_point
    last_erase_point,   \* self.last_erase_point
    mouse_mode,         \* self.mouse_mode
    fullscreen,         \* self.fullscreen
    last_finger_count,  \* run(): last_finger_count
    hand,               \* run(): (hand_x, hand_y) of the latest tick, None = <<>>
    finger_count,       \* run(): finger_count of the latest tick
    results,            \* detect_fingers_mediapipe(): what hands.process() and
                        \* the landmark tests gave in the latest tick
    caught,             \* the except clauses entered in the latest tick:
                        \* "detect" (line 250), "run" (line 567)
    in_stroke,          \* handle_mouse has called draw_on_canvas since the
                        \* last EVENT_LBUTTONDOWN / EVENT_LBUTTONUP
    pc,                 \* position in run(): "frame", "keys" or "done"
    ticks,              \* number of loop iterations that got a frame or raised
    step,               \* the step taken last: "frame", "readfail", the key
                        \* handled, or the branch of handle_mouse taken
    action,             \* what the gesture logic of the latest tick did
    ops                 \* the cv2 calls on self.canvas made by the last step

vars == <<FINGERS_FOR_DRAW, FINGERS_FOR_ERASE, SCREEN_WIDTH, SCREEN_HEIGHT,
          cap_opened, hands, mouse_callback, drawing_mode, current_color,
          brush_size, eraser_size, canvas, hand_pos, last_draw_point,
          last_erase_point, mouse_mode, fullscreen, last_finger_count, hand,
          finger_count, results, caught, in_stroke, pc, ticks, step, action,
          ops>>

---------------------------------------------------------------------------
(* Bounds *)

\* loop iterations explored
MaxTicks == 2

\* loop iterations explored in the sessions of SpecKeys, one key press each
MaxPresses == 8

---------------------------------------------------------------------------
(* Settings of __init__ *)

DEFAULT_FINGERS_FOR_DRAW == 2
DEFAULT_FINGERS_FOR_ERASE == 4
CANVAS_WIDTH == 1920
CANVAS_HEIGHT == 1080
DEFAULT_BRUSH_SIZE == 8
DEFAULT_ERASER_SIZE == 40
DEFAULT_COLOR == <<0, 255, 0>>
BACKGROUND == <<20, 20, 20>>
MAX_JUMP == 100

colors == << <<0, 0, 255>>, <<0, 255, 0>>, <<255, 0, 0>>, <<0, 255, 255>>,
             <<255, 0, 255>>, <<255, 255, 0>>, <<255, 255, 255>>, <<0, 0, 0>> >>

sizes == <<5, 8, 12, 20, 30, 50>>

\* Python None, for an optional point
None == <<>>

---------------------------------------------------------------------------
(* Inputs *)

\* Landmark coordinates are fractions of the image; the model writes them in
\* units of 1/LM_DEN, a common multiple of every frame width and height.
LM_DEN == 34560

\* frame sizes (w, h) the capture delivers
FrameSizes == { <<1280, 720>>, <<1920, 1080>> }

\* index-fingertip landmarks (x, y); at 1280x720 they fall on the pixels
\* (10,10) (15,10) (0,10) (10,0), at 1920x1080 on (15,15) (22,15) (0,15) (15,0)
Tips == { <<270, 480>>, <<405, 480>>, <<10, 480>>, <<270, 30>> }

\* the fingers of finger_tips / finger_pips: 0 = thumb .. 4 = pinky
Fingers == 0..4

\* one set of fingers passing their extension test per finger count
ExtendedSets == { {}, {1}, {1, 2}, {1, 2, 3}, {1, 2, 3, 4}, {0, 1, 2, 3, 4} }

\* what the detector gives: found = results.multi_hand_landmarks is not
\* empty, tip = landmark 8, ext = the fingers whose is_extended test passes,
\* raised = an exception is raised inside the try block
NoHand == [found |-> FALSE, tip |-> <<0, 0>>, ext |-> {}, raised |-> FALSE]
Hand(t, e) == [found |-> TRUE, tip |-> t, ext |-> e, raised |-> FALSE]

\* hands.process() raises; the landmark drawing or a landmark access raises
RaisedDetections ==
    { [found |-> FALSE, tip |-> <<0, 0>>, ext |-> {}, raised |-> TRUE],
      [found |-> TRUE, tip |-> <<270, 480>>, ext |-> {1, 2}, raised |-> TRUE] }

Detections == {NoHand} \cup { Hand(t, e) : t \in Tips, e \in ExtendedSets }
              \cup RaisedDetections

\* the detections of the sessions with faults
FaultDetections ==
    {NoHand, Hand(<<270, 480>>, {1, 2}), Hand(<<405, 480>>, {1, 2}),
     Hand(<<270, 480>>, {1, 2, 3, 4})} \cup RaisedDetections

\* every combination of the five extension tests, at one fingertip
FingerDetections == {NoHand} \cup { Hand(<<270, 480>>, e) : e \in SUBSET Fingers }

\* mouse positions (window pixels)
MousePoints == { <<0, 0>>, <<10, 10>>, <<110, 10>>, <<200, 200>> }

\* pixels at which the canvas is observed
SamplePixels == { <<0, 0>>, <<10, 10>>, <<60, 10>>, <<110, 10>>, <<200, 200>>,
                  <<1500, 800>> }

---------------------------------------------------------------------------
(* Geometry of cv2.circle and cv2.line *)

Sub(a, b) == <<a[1] - b[1], a[2] - b[2]>>
Dot(a, b) == a[1] * b[1] + a[2] * b[2]
Dist2(a, b) == Dot(Sub(a, b), Sub(a, b))

\* q is inside the filled circle of centre c and radius r
InDisk(q, c, r) == Dist2(q, c) <= r * r

\* q is inside the line p1-p2 drawn with thickness t (round ends)
InStroke(q, p1, p2, t) ==
    LET d    == Sub(p2, p1)
        v    == Sub(q, p1)
        len2 == Dot(d, d)
        tn   == Dot(v, d)
        cr   == v[1] * d[2] - v[2] * d[1]
    IN  IF Dist2(q, p1) > 2 * len2 + t * t THEN FALSE
        ELSE IF len2 = 0 \/ tn <= 0 THEN 4 * Dist2(q, p1) <= t * t
        ELSE IF tn >= len2 THEN 4 * Dist2(q, p2) <= t * t
        ELSE cr * cr <= (t * t * len2) \div 4

circle(cv, c, r, col) ==
    [cv EXCEPT !.px = [q \in DOMAIN cv.px |->
                          IF InDisk(q, c, r) THEN col ELSE cv.px[q]]]

line(cv, p1, p2, col, t) ==
    [cv EXCEPT !.px = [q \in DOMAIN cv.px |->
                          IF InStroke(q, p1, p2, t) THEN col ELSE cv.px[q]]]

\* log entries of the cv2 calls
CircleOp(c, r, col) == [op |-> "circle", p1 |-> c, p2 |-> c, size |-> r, color |-> col]
LineOp(p1, p2, col, t) == [op |-> "line", p1 |-> p1, p2 |-> p2, size |-> t, color |-> col]
InitOp(width, height) ==
    [op |-> "init", p1 |-> <<0, 0>>, p2 |-> <<width, height>>, size |-> 0,
     color |-> BACKGROUND]

---------------------------------------------------------------------------
(* Methods.  A board b is the part of self they change:                    *)
(* [canvas, last_draw_point, last_erase_point, ops].                       *)

Board == [canvas |-> canvas, last_draw_point |-> last_draw_point,
          last_erase_point |-> last_erase_point, ops |-> <<>>]

\* an initialization that resizes the array and keeps what was drawn
init_canvas_keeps_content(b, width, height) ==
    [b EXCEPT !.canvas = [w |-> width, h |-> height,
                          px |-> [q \in {s \in SamplePixels :
                                            s[1] < width /\ s[2] < height}
                                    |-> IF q \in DOMAIN b.canvas.px
                                        THEN b.canvas.px[q] ELSE BACKGROUND]],
              !.ops = Append(@, InitOp(width, height))]

init_canvas(b, width, height) ==
    [b EXCEPT !.canvas = [w |-> width, h |-> height,
                          px |-> [q \in {s \in SamplePixels :
                                            s[1] < width /\ s[2] < height}
                                    |-> BACKGROUND]],
              !.ops = Append(@, InitOp(width, height))]

\* a reset that forgets the erase point
reset_keeps_erase_point(b) ==
    [b EXCEPT !.last_draw_point = None]

\* a reset that forgets the draw point
reset_keeps_draw_point(b) ==
    [b EXCEPT !.last_erase_point = None]

reset_last_points(b) ==
    [b EXCEPT !.last_draw_point = None, !.last_erase_point = None]

\* the jump guard with <= for <
distance_ok_inclusive(p, c) == Dist2(p, c) <= MAX_JUMP * MAX_JUMP

\* math.sqrt((x2 - x1)**2 + (y2 - y1)**2) < 100, exact on integers
distance_ok(p, c) == Dist2(p, c) < MAX_JUMP * MAX_JUMP

\* thickness of the connecting line of each mode
draw_thickness == brush_size * 2
erase_thickness == eraser_size

draw_on_canvas(b, x, y, mode) ==
    IF mode = "draw" THEN
        LET c == <<x, y>>
            p == b.last_draw_point
            connect == p # None /\ distance_ok(p, c)
            cv1 == circle(b.canvas, c, brush_size, current_color)
            cv2 == IF connect
                   THEN line(cv1, p, c, current_color, draw_thickness)
                   ELSE cv1
            o1 == Append(b.ops, CircleOp(c, brush_size, current_color))
            o2 == IF connect
                  THEN Append(o1, LineOp(p, c, current_color, draw_thickness))
                  ELSE o1
        IN  [b EXCEPT !.canvas = cv2, !.ops = o2, !.last_draw_point = c]
    ELSE IF mode = "erase" THEN
        LET c == <<x, y>>
            p == b.last_erase_point
            connect == p # None /\ distance_ok(p, c)
            cv1 == circle(b.canvas, c, eraser_size, BACKGROUND)
            cv2 == IF connect
                   THEN line(cv1, p, c, BACKGROUND, erase_thickness)
                   ELSE cv1
            o1 == Append(b.ops, CircleOp(c, eraser_size, BACKGROUND))
            o2 == IF connect
                  THEN Append(o1, LineOp(p, c, BACKGROUND, erase_thickness))
                  ELSE o1
        IN  [b EXCEPT !.canvas = cv2, !.ops = o2, !.last_erase_point = c]
    ELSE b

\* a counting loop that stops after the ring finger
RECURSIVE count_extended_to_ring(_, _, _)
count_extended_to_ring(i, ext, n) ==
    IF i = 4 THEN n
    ELSE count_extended_to_ring(i + 1, ext, IF i \in ext THEN n + 1 ELSE n)

\* lines 220-246: "for i in range(5): ... if is_extended: finger_count += 1",
\* from finger i on, with n counted so far
RECURSIVE count_extended(_, _, _)
count_extended(i, ext, n) ==
    IF i = 5 THEN n
    ELSE count_extended(i + 1, ext, IF i \in ext THEN n + 1 ELSE n)

\* a detector whose except clause hands back what was computed so far
detect_fingers_keeps_partial(fw, fh, det) ==
    IF det.found
    THEN [hand  |-> <<(det.tip[1] * fw) \div LM_DEN, (det.tip[2] * fh) \div LM_DEN>>,
          count |-> count_extended(0, det.ext, 0)]
    ELSE [hand |-> None, count |-> 0]

\* int(index_tip.x * w), int(index_tip.y * h) and the finger count; an
\* exception inside the try block falls through to "return None, None, 0, []"
detect_fingers_mediapipe(fw, fh, det) ==
    IF det.raised THEN [hand |-> None, count |-> 0]
    ELSE IF det.found
    THEN [hand  |-> <<(det.tip[1] * fw) \div LM_DEN, (det.tip[2] * fh) \div LM_DEN>>,
          count |-> count_extended(0, det.ext, 0)]
    ELSE [hand |-> None, count |-> 0]

\* Python truth of "hand_x and hand_y": None and 0 are both false
cursor_present(hnd) == hnd # None /\ hnd[1] # 0 /\ hnd[2] # 0

\* a change test that compares the gestures' modes instead of the counts
mode_of_count(count) ==
    IF count = FINGERS_FOR_DRAW /\ drawing_mode THEN "Drawing"
    ELSE IF count >= FINGERS_FOR_ERASE THEN "Erasing"
    ELSE "Idle"
gesture_changed_by_mode(count, last) == mode_of_count(count) # mode_of_count(last)

\* "if finger_count != last_finger_count"
gesture_changed(count, last) == count # last

\* the gesture logic with the erase test first
gesture_branch_erase_first(hnd, count) ==
    IF ~(cursor_present(hnd) /\ ~mouse_mode) THEN "Skipped"
    ELSE IF count >= FINGERS_FOR_ERASE THEN "Erasing"
    ELSE IF count = FINGERS_FOR_DRAW
         THEN (IF drawing_mode THEN "Drawing" ELSE "Nothing")
    ELSE "Idle"

\* the gesture logic with > for >= in the erase test
gesture_branch_strict_erase(hnd, count) ==
    IF ~(cursor_present(hnd) /\ ~mouse_mode) THEN "Skipped"
    ELSE IF count = FINGERS_FOR_DRAW
         THEN (IF drawing_mode THEN "Drawing" ELSE "Nothing")
    ELSE IF count > FINGERS_FOR_ERASE THEN "Erasing"
    ELSE "Idle"

\* the branch of the gesture logic taken
gesture_branch(hnd, count) ==
    IF ~(cursor_present(hnd) /\ ~mouse_mode) THEN "Skipped"
    ELSE IF count = FINGERS_FOR_DRAW
         THEN (IF drawing_mode THEN "Drawing" ELSE "Nothing")
    ELSE IF count >= FINGERS_FOR_ERASE THEN "Erasing"
    ELSE "Idle"

handle_gesture(b, hnd, count) ==
    LET br == gesture_branch(hnd, count)
    IN  IF br = "Drawing" THEN draw_on_canvas(b, hnd[1], hnd[2], "draw")
        ELSE IF br = "Erasing" THEN draw_on_canvas(b, hnd[1], hnd[2], "erase")
        ELSE IF br = "Idle" THEN reset_last_points(b)
        ELSE b

---------------------------------------------------------------------------
(* Initial state: __init__ and the start of run()                          *)

InitWith(fd, fe) ==
    /\ FINGERS_FOR_DRAW = fd
    /\ FINGERS_FOR_ERASE = fe
    /\ SCREEN_WIDTH = 1920
    /\ SCREEN_HEIGHT = 1080
    /\ cap_opened \in BOOLEAN
    /\ mouse_mode = ~cap_opened
    /\ mouse_callback = mouse_mode
    \* hands is read only while mouse_mode is false (line 480)
    /\ hands \in (IF cap_opened THEN BOOLEAN ELSE {TRUE})
    /\ drawing_mode = TRUE
    /\ current_color = DEFAULT_COLOR
    /\ brush_size = DEFAULT_BRUSH_SIZE
    /\ eraser_size = DEFAULT_ERASER_SIZE
    \* init_canvas(self.CANVAS_WIDTH, self.CANVAS_HEIGHT)
    /\ canvas = [w |-> CANVAS_WIDTH, h |-> CANVAS_HEIGHT,
                 px |-> [q \in SamplePixels |-> BACKGROUND]]
    /\ hand_pos = <<0, 0>>
    /\ last_draw_point = None
    /\ last_erase_point = None
    /\ fullscreen = TRUE
    /\ last_finger_count = 0
    /\ hand = None
    /\ finger_count = 0
    /\ results = NoHand
    /\ caught = {}
    /\ in_stroke = FALSE
    /\ pc = "frame"
    /\ ticks = 0
    /\ step = "init"
    /\ action = "Skipped"
    /\ ops = <<>>

Init == InitWith(DEFAULT_FINGERS_FOR_DRAW, DEFAULT_FINGERS_FOR_ERASE)

\* the degenerate configuration in which one count meets both gesture tests
InitTie == InitWith(DEFAULT_FINGERS_FOR_DRAW, DEFAULT_FINGERS_FOR_DRAW)

---------------------------------------------------------------------------
(* The loop of run()                                                       *)

settings == <<FINGERS_FOR_DRAW, FINGERS_FOR_ERASE, cap_opened, hands,
              mouse_callback, eraser_size>>
locals == <<last_finger_count, hand, finger_count, results>>
handler == <<in_stroke>>
screen == <<SCREEN_WIDTH, SCREEN_HEIGHT>>

\* "not self.mouse_mode and self.cap and self.cap.isOpened()"
camera == ~mouse_mode /\ cap_opened

\* a detection test that forgets the fallback mode
tracking_ignores_mode == hands

\* "if not self.mouse_mode and hands" (line 480)
tracking == ~mouse_mode /\ hands

\* lines 453-458: cap.read() returns no frame; mouse_mode is set and the
\* iteration is abandoned with "continue".  It happens at most once in a
\* session, since camera is false afterwards, and is not counted in ticks.
ReadFail ==
    /\ pc = "frame"
    /\ camera
    /\ mouse_mode' = TRUE
    /\ ticks' = ticks
    /\ step' = "readfail"
    /\ action' = "Skipped"
    /\ caught' = {}
    /\ ops' = <<>>
    /\ UNCHANGED <<settings, locals, screen, handler, drawing_mode,
                   current_color, brush_size, canvas, hand_pos,
                   last_draw_point, last_erase_point, fullscreen, pc>>

\* an except clause that leaves the loop
after_exception_break == "done"

\* the statement reached when "except Exception" ends with "continue"
\* (lines 567-569): the top of the loop
after_exception == "frame"

\* lines 450-465: cap.read(), np.zeros or cv2.flip raises before anything is
\* assigned; line 567 catches it
TickError ==
    /\ pc = "frame"
    /\ ticks < MaxTicks
    /\ pc' = after_exception
    /\ ticks' = ticks + 1
    /\ step' = "error"
    /\ action' = "Skipped"
    /\ caught' = {"run"}
    /\ ops' = <<>>
    /\ UNCHANGED <<settings, locals, screen, handler, drawing_mode,
                   current_color, brush_size, canvas, hand_pos,
                   last_draw_point, last_erase_point, mouse_mode, fullscreen>>

\* KeyboardInterrupt (line 564) at the top of the loop or in cv2.waitKey: break
Interrupt ==
    /\ pc \in {"frame", "keys"}
    /\ pc' = "done"
    /\ step' = "interrupt"
    /\ ops' = <<>>
    /\ UNCHANGED <<settings, locals, screen, handler, drawing_mode,
                   current_color, brush_size, canvas, hand_pos,
                   last_draw_point, last_erase_point, mouse_mode, fullscreen,
                   ticks, action, caught>>

\* lines 450-520 with a frame: fsize is the size of the frame read, det the
\* answer of the landmark detector, shown is false when the display stage
\* (cv2.resize, cv2.addWeighted, draw_ui, update_fps, cv2.imshow: lines
\* 506-520, none of which writes self.canvas) raises and line 567 catches it,
\* so that the key phase of the tick is not reached
FramePhase(fsize, det, shown) ==
    /\ pc = "frame"
    \* a frame is read only from the camera, the detector runs only at line 481
    /\ ~camera => fsize = <<SCREEN_WIDTH, SCREEN_HEIGHT>>
    /\ ~tracking => det = NoHand
    /\ LET fw == IF camera THEN fsize[1] ELSE SCREEN_WIDTH
           fh == IF camera THEN fsize[2] ELSE SCREEN_HEIGHT
           b0 == IF <<canvas.h, canvas.w>> # <<fh, fw>>
                 THEN init_canvas(Board, fw, fh)
                 ELSE Board
           r  == IF tracking
                 THEN detect_fingers_mediapipe(fw, fh, det)
                 ELSE [hand |-> None, count |-> 0]
           changed == gesture_changed(r.count, last_finger_count)
           b1 == IF changed THEN reset_last_points(b0) ELSE b0
           b2 == handle_gesture(b1, r.hand, r.count)
       IN  /\ SCREEN_WIDTH' = fw
           /\ SCREEN_HEIGHT' = fh
           /\ hand' = r.hand
           /\ hand_pos' = IF cursor_present(r.hand) /\ ~mouse_mode
                          THEN r.hand ELSE hand_pos
           /\ finger_count' = r.count
           /\ last_finger_count' = IF changed THEN r.count ELSE last_finger_count
           /\ canvas' = b2.canvas
           /\ last_draw_point' = b2.last_draw_point
           /\ last_erase_point' = b2.last_erase_point
           /\ ops' = b2.ops
           /\ action' = gesture_branch(r.hand, r.count)
    /\ results' = det
    /\ caught' = (IF det.raised THEN {"detect"} ELSE {})
                     \cup (IF shown THEN {} ELSE {"run"})
    /\ ticks' = ticks + 1
    /\ step' = "frame"
    /\ pc' = IF shown THEN "keys" ELSE after_exception
    /\ UNCHANGED <<settings, handler, drawing_mode, current_color,
                   brush_size, mouse_mode, fullscreen>>

\* one iteration's frame phase, within the iterations explored
Frame(fsize, det, shown) ==
    /\ ticks < MaxTicks
    /\ FramePhase(fsize, det, shown)

---------------------------------------------------------------------------
(* The key handler, lines 523-562                                          *)

\* what every key leaves alone
KeyFrame(key) ==
    /\ pc = "keys"
    /\ step' = key
    /\ UNCHANGED <<settings, locals, screen, handler, hand_pos, mouse_mode,
                   ticks, action, caught>>

\* an ESC branch without the break
KeyEsc_no_break ==
    /\ KeyFrame("key:esc")
    /\ pc' = "frame"
    /\ ops' = <<>>
    /\ UNCHANGED <<drawing_mode, current_color, brush_size, canvas,
                   last_draw_point, last_erase_point, fullscreen>>

\* ESC: break
KeyEsc ==
    /\ KeyFrame("key:esc")
    /\ pc' = "done"
    /\ ops' = <<>>
    /\ UNCHANGED <<drawing_mode, current_color, brush_size, canvas,
                   last_draw_point, last_erase_point, fullscreen>>

\* a space key that toggles the base mode and keeps the stroke points
KeySpace_no_reset ==
    /\ KeyFrame("key:space")
    /\ pc' = "frame"
    /\ drawing_mode' = ~drawing_mode
    /\ ops' = <<>>
    /\ UNCHANGED <<current_color, brush_size, canvas, fullscreen,
                   last_draw_point, last_erase_point>>

\* space: toggle the base mode and reset the stroke points
KeySpace ==
    /\ KeyFrame("key:space")
    /\ pc' = "frame"
    /\ drawing_mode' = ~drawing_mode
    /\ last_draw_point' = reset_last_points(Board).last_draw_point
    /\ last_erase_point' = reset_last_points(Board).last_erase_point
    /\ ops' = <<>>
    /\ UNCHANGED <<current_color, brush_size, canvas, fullscreen>>

\* self.colors.index(self.current_color) if present, else 0 (0-based)
color_index ==
    IF \E i \in 1..Len(colors) : colors[i] = current_color
    THEN (CHOOSE i \in 1..Len(colors) :
             /\ colors[i] = current_color
             /\ \A j \in 1..(i - 1) : colors[j] # current_color) - 1
    ELSE 0

\* a colour key that also resets the stroke points
KeyColor_resets ==
    /\ KeyFrame("key:c")
    /\ pc' = "frame"
    /\ current_color' = colors[((color_index + 1) % Len(colors)) + 1]
    /\ last_draw_point' = reset_last_points(Board).last_draw_point
    /\ last_erase_point' = reset_last_points(Board).last_erase_point
    /\ ops' = <<>>
    /\ UNCHANGED <<drawing_mode, brush_size, canvas, fullscreen>>

\* a colour key that stops at the last palette colour
KeyColor_no_wrap ==
    /\ KeyFrame("key:c")
    /\ pc' = "frame"
    /\ current_color' = colors[(IF color_index + 1 < Len(colors)
                                THEN color_index + 1
                                ELSE color_index) + 1]
    /\ ops' = <<>>
    /\ UNCHANGED <<drawing_mode, brush_size, canvas, last_draw_point,
                   last_erase_point, fullscreen>>

\* 'c': next palette colour
KeyColor ==
    /\ KeyFrame("key:c")
    /\ pc' = "frame"
    /\ current_color' = colors[((color_index + 1) % Len(colors)) + 1]
    /\ ops' = <<>>
    /\ UNCHANGED <<drawing_mode, brush_size, canvas, last_draw_point,
                   last_erase_point, fullscreen>>

\* sizes.index(self.brush_size) if present, else 0 (0-based)
size_index ==
    IF \E i \in 1..Len(sizes) : sizes[i] = brush_size
    THEN (CHOOSE i \in 1..Len(sizes) :
             /\ sizes[i] = brush_size
             /\ \A j \in 1..(i - 1) : sizes[j] # brush_size) - 1
    ELSE 0

\* 's': next brush size
KeySize ==
    /\ KeyFrame("key:s")
    /\ pc' = "frame"
    /\ brush_size' = sizes[((size_index + 1) % Len(sizes)) + 1]
    /\ ops' = <<>>
    /\ UNCHANGED <<drawing_mode, current_color, canvas, last_draw_point,
                   last_erase_point, fullscreen>>

\* 'f': toggle fullscreen
KeyFullscreen ==
    /\ KeyFrame("key:f")
    /\ pc' = "frame"
    /\ fullscreen' = ~fullscreen
    /\ ops' = <<>>
    /\ UNCHANGED <<drawing_mode, current_color, brush_size, canvas,
                   last_draw_point, last_erase_point>>

\* a save key that clears the canvas once the file is written
KeySave_clears ==
    /\ KeyFrame("key:p")
    /\ pc' = "frame"
    /\ canvas' = init_canvas(Board, SCREEN_WIDTH, SCREEN_HEIGHT).canvas
    /\ ops' = <<>>
    /\ UNCHANGED <<drawing_mode, current_color, brush_size,
                   last_draw_point, last_erase_point, fullscreen>>

\* 'p': cv2.imwrite(filename, self.canvas)
KeySave ==
    /\ KeyFrame("key:p")
    /\ pc' = "frame"
    /\ ops' = <<>>
    /\ UNCHANGED <<drawing_mode, current_color, brush_size, canvas,
                   last_draw_point, last_erase_point, fullscreen>>

\* any other key, or no key within 1 ms
KeyOther ==
    /\ KeyFrame("key:other")
    /\ pc' = "frame"
    /\ ops' = <<>>
    /\ UNCHANGED <<drawing_mode, current_color, brush_size, canvas,
                   last_draw_point, last_erase_point, fullscreen>>

\* 'r' without the reset of the stroke points
KeyClear_no_reset ==
    /\ KeyFrame("key:r")
    /\ pc' = "frame"
    /\ canvas' = init_canvas(Board, SCREEN_WIDTH, SCREEN_HEIGHT).canvas
    /\ ops' = init_canvas(Board, SCREEN_WIDTH, SCREEN_HEIGHT).ops
    /\ UNCHANGED <<drawing_mode, current_color, brush_size, fullscreen,
                   last_draw_point, last_erase_point>>

\* 'r': init_canvas(w, h) with the size of this tick's frame, then reset
KeyClear ==
    /\ KeyFrame("key:r")
    /\ pc' = "frame"
    /\ LET b == reset_last_points(init_canvas(Board, SCREEN_WIDTH, SCREEN_HEIGHT))
       IN  /\ canvas' = b.canvas
           /\ last_draw_point' = b.last_draw_point
           /\ last_erase_point' = b.last_erase_point
           /\ ops' = b.ops
    /\ UNCHANGED <<drawing_mode, current_color, brush_size, fullscreen>>

---------------------------------------------------------------------------
(* handle_mouse, called from cv2.waitKey when the callback is registered   *)

MouseFrame ==
    /\ pc = "keys"
    /\ mouse_callback
    /\ UNCHANGED <<settings, locals, screen, drawing_mode, current_color,
                   brush_size, mouse_mode, fullscreen, pc, ticks, action,
                   caught>>

\* EVENT_MOUSEMOVE at p; lbutton is flags & EVENT_FLAG_LBUTTON
MouseMove(p, lbutton) ==
    /\ MouseFrame
    /\ step' = IF ~lbutton THEN "mouse:move"
               ELSE IF drawing_mode THEN "mouse:draw" ELSE "mouse:erase"
    /\ hand_pos' = p
    /\ in_stroke' = (lbutton \/ in_stroke)
    /\ LET b == IF lbutton
                THEN draw_on_canvas(Board, p[1], p[2],
                                    IF drawing_mode THEN "draw" ELSE "erase")
                ELSE Board
       IN  /\ canvas' = b.canvas
           /\ last_draw_point' = b.last_draw_point
           /\ last_erase_point' = b.last_erase_point
           /\ ops' = b.ops

\* EVENT_LBUTTONDOWN
MouseDown ==
    /\ MouseFrame
    /\ step' = "mouse:down"
    /\ in_stroke' = FALSE
    /\ last_draw_point' = reset_last_points(Board).last_draw_point
    /\ last_erase_point' = reset_last_points(Board).last_erase_point
    /\ ops' = <<>>
    /\ UNCHANGED <<canvas, hand_pos>>

\* a release that keeps the stroke points
MouseUp_no_reset ==
    /\ MouseFrame
    /\ step' = "mouse:up"
    /\ in_stroke' = FALSE
    /\ ops' = <<>>
    /\ UNCHANGED <<canvas, hand_pos, last_draw_point, last_erase_point>>

\* EVENT_LBUTTONUP
MouseUp ==
    /\ MouseFrame
    /\ step' = "mouse:up"
    /\ in_stroke' = FALSE
    /\ last_draw_point' = reset_last_points(Board).last_draw_point
    /\ last_erase_point' = reset_last_points(Board).last_erase_point
    /\ ops' = <<>>
    /\ UNCHANGED <<canvas, hand_pos>>

---------------------------------------------------------------------------

Next ==
    \/ ReadFail
    \/ \E fsize \in FrameSizes, det \in Detections : Frame(fsize, det, TRUE)
    \/ KeyEsc
    \/ KeySpace
    \/ KeyColor
    \/ KeySize
    \/ KeyFullscreen
    \/ KeySave
    \/ KeyOther
    \/ KeyClear
    \/ \E p \in MousePoints, lbutton \in BOOLEAN : MouseMove(p, lbutton)
    \/ MouseDown
    \/ MouseUp

Spec == Init /\ [][Next]_vars

SpecTie == InitTie /\ [][Next]_vars

\* Spec is every session in which no statement of the loop body raises
\* outside detect_fingers_mediapipe.  SpecFaults is the sessions that start
\* with a camera (no mouse callback), in which the statements before the
\* frame is used and the display stage may raise, and a KeyboardInterrupt
\* may arrive.
InitFaults == Init /\ cap_opened

NextFaults ==
    \/ ReadFail
    \/ TickError
    \/ Interrupt
    \/ \E fsize \in FrameSizes, det \in FaultDetections, shown \in BOOLEAN :
          Frame(fsize, det, shown)
    \/ KeyEsc
    \/ KeySpace
    \/ KeyColor
    \/ KeySize
    \/ KeyFullscreen
    \/ KeySave
    \/ KeyOther
    \/ KeyClear

SpecFaults == InitFaults /\ [][NextFaults]_vars

\* SpecFingers is the camera sessions with hand tracking in which the five
\* extension tests of lines 227-246 come out in every combination.
InitFingers == Init /\ cap_opened /\ hands

NextFingers ==
    \/ \E det \in FingerDetections : Frame(<<1280, 720>>, det, TRUE)
    \/ KeyOther

SpecFingers == InitFingers /\ [][NextFingers]_vars

\* SpecKeys is the sessions of MaxPresses iterations in which no hand is
\* seen and 'c' or 's' is pressed in every key phase.
NextKeys ==
    \/ /\ ticks < MaxPresses
       /\ \E fsize \in FrameSizes : FramePhase(fsize, NoHand, TRUE)
    \/ KeyColor
    \/ KeySize

SpecKeys == Init /\ [][NextKeys]_vars

---------------------------------------------------------------------------
(* Vocabulary of the properties                                            *)

\* the cv2.circle and cv2.line calls in a log o
CirclesOf(o) == { o[i] : i \in { j \in 1..Len(o) : o[j].op = "circle" } }
LinesOf(o) == { o[i] : i \in { j \in 1..Len(o) : o[j].op = "line" } }
Circles == CirclesOf(ops)
Lines == LinesOf(ops)

\* the last step stamped the brush disk / the eraser disk at c
DrewAt(c) == CircleOp(c, brush_size, current_color) \in Circles
ErasedAt(c) == CircleOp(c, eraser_size, BACKGROUND) \in Circles

\* the frame phase of a camera-mode tick has just run
GestureTick == step = "frame" /\ ~mouse_mode

\* some sample pixel carries paint
Painted == \E q \in DOMAIN canvas.px : canvas.px[q] # BACKGROUND

\* the last step was a call of draw_on_canvas in "draw" / "erase" mode
DrawStep == (step = "frame" /\ action = "Drawing") \/ step = "mouse:draw"
EraseStep == (step = "frame" /\ action = "Erasing") \/ step = "mouse:erase"

---------------------------------------------------------------------------
(* C1 *)

---------------------------------------------------------------------------
(* C2 *)

\* C2: in a session whose cursor comes from the hand (no mouse callback),
\* after the frame phase of a tick in which no hand was detected, the ticks
\* that follow a failed capture included, the finger count is 0, the gesture
\* logic has made no cv2.circle or cv2.line call, and last_draw_point and
\* last_erase_point are both None.
C2_NoHandNoMutation ==
    (step = "frame" /\ ~mouse_callback /\ hand = None)
    => /\ finger_count = 0
       /\ action = "Skipped"
       /\ Circles = {}
       /\ Lines = {}
       /\ last_draw_point = None
       /\ last_erase_point = None

\* the hand is lost in the tick after one that painted
C2_Witness ==
    /\ GestureTick
    /\ hands
    /\ hand = None
    /\ ticks = 2
    /\ Painted
    /\ hand_pos # <<0, 0>>

---------------------------------------------------------------------------
(* C3 *)

\* C3: a tick whose finger count differs from the previous tick's makes no
\* cv2.line call and leaves a slot present only if it set it itself, also
\* when both counts erase (4 -> 5); a Drawing tick that follows a Drawing
\* tick with the same count and finds last_draw_point present draws the
\* connecting line from it exactly when it is less than 100 px away.
C3_CountChangeBreaksStroke ==
    [][ (pc = "frame" /\ step' = "frame")
        => /\ (finger_count' # finger_count)
                 => /\ LinesOf(ops') = {}
                    /\ last_draw_point' # None => action' = "Drawing"
                    /\ last_erase_point' # None => action' = "Erasing"
           /\ (/\ finger_count' = finger_count
               /\ action = "Drawing"
               /\ action' = "Drawing"
               /\ last_draw_point # None)
              => (LineOp(last_draw_point, hand', current_color, 2 * brush_size)
                      \in LinesOf(ops')
                  <=> Dist2(last_draw_point, hand') < 10000)
      ]_vars

\* an Erasing tick with 4 fingers has left its point, and the next tick can
\* erase with 5 fingers less than 100 px from it
C3_Witness ==
    /\ pc = "frame"
    /\ ~mouse_mode
    /\ action = "Erasing"
    /\ finger_count = 4
    /\ last_erase_point = <<10, 10>>
    /\ ENABLED (\E fsize \in FrameSizes, det \in Detections :
                  /\ Frame(fsize, det, TRUE)
                  /\ finger_count' = 5
                  /\ action' = "Erasing"
                  /\ hand' = <<15, 10>>)

---------------------------------------------------------------------------
(* C4 *)

---------------------------------------------------------------------------
(* C5, under SpecTie *)

\* a camera-mode tick with a hand and count 2 where 2 meets both tests
TieTick ==
    /\ GestureTick
    /\ FINGERS_FOR_DRAW = 2
    /\ FINGERS_FOR_ERASE = 2
    /\ hand # None
    /\ finger_count = 2

---------------------------------------------------------------------------
(* C6 *)

\* C6: a call of draw_on_canvas in "erase" mode is the "draw" algorithm with
\* BACKGROUND, eraser_size and last_erase_point: the disk has radius
\* eraser_size, last_erase_point becomes the cursor, and a connecting line is
\* BACKGROUND, ends at the cursor, joins points less than 100 px apart and is
\* 2 * eraser_size thick.
C6_EraseMirrorsDraw ==
    EraseStep
    => /\ ErasedAt(hand_pos)
       /\ last_erase_point = hand_pos
       /\ \A l \in Lines : /\ l.color = BACKGROUND
                           /\ l.p2 = hand_pos
                           /\ Dist2(l.p1, l.p2) < 10000
                           /\ l.size = 2 * eraser_size

---------------------------------------------------------------------------
(* C7 *)

\* C7: at the start of every camera-mode tick, last_draw_point is present only
\* if the preceding tick was a Drawing tick, and is then that tick's cursor;
\* likewise last_erase_point and Erasing.
C7_SlotLifetime ==
    (pc = "frame" /\ ~mouse_mode)
    => /\ last_draw_point # None
             => action = "Drawing" /\ last_draw_point = hand
       /\ last_erase_point # None
             => action = "Erasing" /\ last_erase_point = hand

---------------------------------------------------------------------------
(* C8 *)

\* C8: in a camera-mode tick with a hand detected at a pixel of the canvas,
\* count = FINGERS_FOR_DRAW in Write mode stamps the brush at that pixel,
\* count >= FINGERS_FOR_ERASE erases at it, and any other reading leaves both
\* slots None.
C8_CursorPresentIffDetected ==
    (/\ GestureTick
     /\ hand # None
     /\ hand[1] >= 0 /\ hand[1] < canvas.w
     /\ hand[2] >= 0 /\ hand[2] < canvas.h)
    => /\ (finger_count = FINGERS_FOR_DRAW /\ drawing_mode) => DrewAt(hand)
       /\ (finger_count >= FINGERS_FOR_ERASE) => ErasedAt(hand)
       /\ (/\ ~(finger_count = FINGERS_FOR_DRAW /\ drawing_mode)
           /\ ~(finger_count >= FINGERS_FOR_ERASE))
          => last_draw_point = None /\ last_erase_point = None

---------------------------------------------------------------------------
(* C9 *)

\* the latest camera-mode tick saw a hand whose reading is Idle
IdleReading ==
    /\ GestureTick
    /\ hand # None
    /\ ~(finger_count = FINGERS_FOR_DRAW /\ drawing_mode)
    /\ ~(finger_count >= FINGERS_FOR_ERASE)

\* C9: a tick with an Idle reading (count 2 in Erase mode included) makes no
\* cv2.circle or cv2.line call, leaves every pixel as it was unless the frame
\* size changed and the canvas was reinitialized, and ends with both slots
\* None; so does every further such tick.
C9_IdleIdempotent ==
    [][ (pc = "frame" /\ IdleReading')
        => /\ CirclesOf(ops') = {}
           /\ LinesOf(ops') = {}
           /\ last_draw_point' = None
           /\ last_erase_point' = None
           /\ (ops' = <<>>) => canvas' = canvas
           /\ (ops' # <<>>) => ops' = <<InitOp(SCREEN_WIDTH', SCREEN_HEIGHT')>>
      ]_vars

\* the second tick reads two fingers in Erase mode over a painted canvas
C9_Witness ==
    /\ IdleReading
    /\ ticks = 2
    /\ finger_count = 2
    /\ ~drawing_mode
    /\ action = "Nothing"
    /\ Painted

---------------------------------------------------------------------------
(* C10 *)

\* C10: the space key and the 'r' key leave both slots None, and the frame
\* phase that follows draws no connecting line (and in fallback mode leaves
\* the slots None for the mouse strokes that follow).
C10_KeyResetBreaksStroke ==
    [][ /\ step' \in {"key:space", "key:r"}
           => last_draw_point' = None /\ last_erase_point' = None
        /\ (step \in {"key:space", "key:r"} /\ step' = "frame")
           => /\ LinesOf(ops') = {}
              /\ mouse_mode => last_draw_point' = None /\ last_erase_point' = None
      ]_vars

\* 'r' was pressed in a tick that drew at (10,10), and the next tick can draw
\* 5 px away with the same finger count
C10_Witness ==
    /\ step = "key:r"
    /\ ~mouse_mode
    /\ drawing_mode
    /\ action = "Drawing"
    /\ hand = <<10, 10>>
    /\ ENABLED (\E fsize \in FrameSizes, det \in Detections :
                  /\ Frame(fsize, det, TRUE)
                  /\ finger_count' = finger_count
                  /\ action' = "Drawing"
                  /\ hand' = <<15, 10>>)

---------------------------------------------------------------------------
(* C11 *)

\* the pixels of SamplePixels inside a width x height array
PixelsOf(width, height) == { q \in SamplePixels : q[1] < width /\ q[2] < height }

\* the cv2.circle or cv2.line call o paints pixel q
Covers(o, q) ==
    IF o.op = "circle" THEN InDisk(q, o.p1, o.size)
    ELSE IF o.op = "line" THEN InStroke(q, o.p1, o.p2, o.size)
    ELSE FALSE

\* C11: the canvas of __init__ is CANVAS_WIDTH x CANVAS_HEIGHT and all
\* BACKGROUND; after every tick the canvas has the size of the tick's frame;
\* a step that called init_canvas(width, height) leaves a canvas of exactly
\* that size on which every pixel not painted by a later cv2 call of the same
\* step is BACKGROUND; after the 'r' key every pixel is BACKGROUND.
C11_InitCanvasTotal ==
    /\ step = "init"
          => /\ <<canvas.w, canvas.h>> = <<CANVAS_WIDTH, CANVAS_HEIGHT>>
             /\ DOMAIN canvas.px = PixelsOf(CANVAS_WIDTH, CANVAS_HEIGHT)
             /\ ~Painted
    /\ step = "frame"
          => <<canvas.w, canvas.h>> = <<SCREEN_WIDTH, SCREEN_HEIGHT>>
    /\ \A i \in 1..Len(ops) :
          ops[i].op = "init"
          => /\ <<canvas.w, canvas.h>> = ops[i].p2
             /\ DOMAIN canvas.px = PixelsOf(ops[i].p2[1], ops[i].p2[2])
             /\ \A q \in DOMAIN canvas.px :
                   canvas.px[q] # BACKGROUND
                   => \E j \in (i + 1)..Len(ops) : Covers(ops[j], q)
    /\ step = "key:r"
          => /\ ops = <<InitOp(SCREEN_WIDTH, SCREEN_HEIGHT)>>
             /\ ~Painted

\* 'r' was pressed in a tick that painted the pixel (10,10)
C11_Witness ==
    /\ step = "key:r"
    /\ action = "Drawing"
    /\ hand = <<10, 10>>
    /\ canvas.px[<<10, 10>>] = BACKGROUND
    /\ <<canvas.w, canvas.h>> = <<1280, 720>>

---------------------------------------------------------------------------
(* C12 *)

\* the steps that call neither draw_on_canvas nor init_canvas
ReadOnlySteps ==
    {"readfail", "key:esc", "key:space", "key:c", "key:s", "key:f", "key:p",
     "key:other", "mouse:move", "mouse:down", "mouse:up"}

\* C12: a step changes self.canvas only if it called draw_on_canvas or
\* init_canvas, and then a pixel that keeps its place changes only where a
\* cv2.circle or cv2.line call of the step covers it or the canvas was
\* reinitialized; the keys 'c', 's', 'f', 'p' (and ESC, space, any other
\* key), mouse moves without the button, and a tick whose gesture logic
\* neither draws nor erases and whose frame has the canvas's size (so that
\* only the blend, draw_ui, update_fps and imshow touch the frame) leave the
\* canvas exactly as it was.
C12_CanvasWriteExclusive ==
    [][ /\ (canvas' # canvas)
           => /\ step' \in {"frame", "mouse:draw", "mouse:erase", "key:r"}
              /\ ops' # <<>>
        /\ \A q \in DOMAIN canvas.px \cap DOMAIN canvas'.px :
              canvas'.px[q] # canvas.px[q]
              => \E i \in 1..Len(ops') :
                    ops'[i].op = "init" \/ Covers(ops'[i], q)
        /\ step' \in ReadOnlySteps => canvas' = canvas
        /\ (/\ step' = "frame"
            /\ action' \notin {"Drawing", "Erasing"}
            /\ <<SCREEN_WIDTH', SCREEN_HEIGHT'>> = <<canvas.w, canvas.h>>)
           => canvas' = canvas
      ]_vars

\* the canvas saved with 'p' carries paint
C12_Witness ==
    /\ step = "key:p"
    /\ Painted
    /\ action = "Drawing"

---------------------------------------------------------------------------
(* C13, under SpecFaults *)

\* C13: a tick in which "except Exception" (line 567) caught an exception
\* ends at the top of the loop, counted as one iteration, with the loop still
\* running; and the loop is left only by the ESC key or a KeyboardInterrupt.
C13_ExceptionsDoNotEndLoop ==
    [][ /\ (step' \in {"frame", "error"} /\ "run" \in caught')
           => /\ pc' = "frame"
              /\ ticks' = ticks + 1
        /\ (pc # "done" /\ pc' = "done")
           => step' \in {"key:esc", "interrupt"}
      ]_vars

\* the display stage of a Drawing tick raised, and the next tick can carry
\* the stroke on with a connecting line
C13_Witness ==
    /\ step = "frame"
    /\ caught = {"run"}
    /\ action = "Drawing"
    /\ pc = "frame"
    /\ ENABLED (\E fsize \in FrameSizes, det \in FaultDetections :
                  /\ Frame(fsize, det, TRUE)
                  /\ action' = "Drawing"
                  /\ LinesOf(ops') # {})

---------------------------------------------------------------------------
(* C14 *)

\* C14: a failed cap.read() leaves the loop running in fallback mode
\* (mouse_mode set, control at the top of the loop), and whenever the loop
\* waits in cv2.waitKey in fallback mode a pointer move with the left button
\* held reaches handle_mouse and stamps the canvas.
C14_CaptureFailureFallback ==
    /\ step = "readfail" => (pc = "frame" /\ mouse_mode)
    /\ (mouse_mode /\ pc = "keys")
          => ENABLED (\E p \in MousePoints :
                        /\ MouseMove(p, TRUE)
                        /\ CirclesOf(ops') # {})

---------------------------------------------------------------------------
(* C15 *)

\* C15: after the frame phase of a tick in which the except clause of
\* detect_fingers_mediapipe (line 250) was entered, the tick has finger count
\* 0 and no cursor, its gesture logic was skipped with no cv2.circle or
\* cv2.line call (the canvas is touched at most by the resize of line 474),
\* both slots are None as after a tick without a hand, and the tick goes on
\* to its key phase unless a later statement raised as well.
C15_DetectionErrorIsAbsence ==
    (step = "frame" /\ "detect" \in caught)
    => /\ results.raised
       /\ finger_count = 0
       /\ last_finger_count = 0
       /\ hand = None
       /\ action = "Skipped"
       /\ Circles = {}
       /\ Lines = {}
       /\ ops \in {<<>>, <<InitOp(SCREEN_WIDTH, SCREEN_HEIGHT)>>}
       /\ last_draw_point = None
       /\ last_erase_point = None
       /\ ("run" \notin caught) => pc = "keys"

\* a landmark access raised, with a hand in view, in the tick after one that
\* painted
C15_Witness ==
    /\ step = "frame"
    /\ caught = {"detect"}
    /\ results.found
    /\ ticks = 2
    /\ Painted
    /\ pc = "keys"

---------------------------------------------------------------------------
(* C16 *)

\* C16: ESC is taken only from cv2.waitKey, i.e. after the frame phase of the
\* tick (detection, gesture logic, blend, UI, imshow) has run to its end; it
\* changes neither the canvas, the slots nor any other attribute and leaves
\* the loop; and once the loop is left no step follows: no tick, key or mouse
\* event changes anything.
C16_QuitIsCoarse ==
    [][ /\ step' = "key:esc"
           => /\ pc = "keys"
              /\ ticks > 0
              /\ "run" \notin caught
              /\ pc' = "done"
              /\ UNCHANGED <<canvas, last_draw_point, last_erase_point,
                             drawing_mode, current_color, brush_size,
                             mouse_mode, hand_pos, ticks>>
        /\ pc = "done" => UNCHANGED vars
      ]_vars

\* ESC was pressed in the first tick, which drew; nothing is enabled after it
C16_Witness ==
    /\ step = "key:esc"
    /\ pc = "done"
    /\ action = "Drawing"
    /\ last_draw_point # None
    /\ ticks < MaxTicks
    /\ ~ENABLED Next

---------------------------------------------------------------------------
(* C17 *)

\* C17: the 'c' key, handled in the key phase between two frame phases,
\* assigns a different palette colour to current_color and nothing else; the
\* 's' key assigns a different size of the list to brush_size and nothing
\* else; drawing_mode, eraser_size, the canvas and both slots keep their
\* values, so that a Drawing tick that follows with the same finger count
\* less than 100 px from last_draw_point draws the connecting line from it.
C17_ColourAndSizeKeys ==
    [][ /\ step' = "key:c"
           => /\ pc = "keys" /\ pc' = "frame"
              /\ current_color' # current_color
              /\ \E i \in 1..Len(colors) : colors[i] = current_color'
              /\ UNCHANGED <<drawing_mode, brush_size, eraser_size, canvas,
                             last_draw_point, last_erase_point, mouse_mode,
                             hand_pos, fullscreen, FINGERS_FOR_DRAW,
                             FINGERS_FOR_ERASE, last_finger_count>>
        /\ step' = "key:s"
           => /\ pc = "keys" /\ pc' = "frame"
              /\ brush_size' # brush_size
              /\ \E i \in 1..Len(sizes) : sizes[i] = brush_size'
              /\ UNCHANGED <<drawing_mode, current_color, eraser_size, canvas,
                             last_draw_point, last_erase_point, mouse_mode,
                             hand_pos, fullscreen, FINGERS_FOR_DRAW,
                             FINGERS_FOR_ERASE, last_finger_count>>
        /\ (/\ step \in {"key:c", "key:s"}
            /\ step' = "frame"
            /\ action = "Drawing"
            /\ action' = "Drawing"
            /\ last_draw_point # None
            /\ finger_count' = finger_count
            /\ Dist2(last_draw_point, hand') < MAX_JUMP * MAX_JUMP)
           => LineOp(last_draw_point, hand', current_color, 2 * brush_size)
                 \in LinesOf(ops')
      ]_vars

\* 'c' was pressed after a tick that drew at (10,10), and the next tick can
\* join (10,10) to (15,10) in the new colour
C17_Witness ==
    /\ step = "key:c"
    /\ ~mouse_mode
    /\ action = "Drawing"
    /\ last_draw_point = <<10, 10>>
    /\ current_color # DEFAULT_COLOR
    /\ ENABLED (\E fsize \in FrameSizes, det \in Detections :
                  /\ Frame(fsize, det, TRUE)
                  /\ LineOp(<<10, 10>>, <<15, 10>>, current_color, 2 * brush_size)
                        \in LinesOf(ops'))

---------------------------------------------------------------------------
(* C18, under SpecFingers *)

\* C18: after a tick whose detector found a hand, whichever of the 32
\* combinations of the five extension tests came out, finger_count is the
\* number of fingers whose test passed, lies in 0..5, and is the count the
\* loop gives for every other combination with as many fingers passing; after
\* a tick without a hand it is 0.
C18_FingerCount ==
    step = "frame"
    => /\ finger_count \in 0..5
       /\ results.found
             => /\ finger_count = Cardinality(results.ext)
                /\ \A e \in SUBSET Fingers :
                      Cardinality(e) = Cardinality(results.ext)
                      => count_extended(0, e, 0) = finger_count
       /\ ~results.found => (finger_count = 0 /\ hand = None)

\* thumb, middle and pinky pass, index and ring do not
C18_Witness ==
    /\ step = "frame"
    /\ results.found
    /\ results.ext = {0, 2, 4}
    /\ finger_count = 3

---------------------------------------------------------------------------
(* C19 *)

\* C19: in every reachable state, whatever ticks, keys and mouse events led
\* to it, last_draw_point and last_erase_point are not both present.
C19_SlotsExclusive ==
    ~(last_draw_point # None /\ last_erase_point # None)

\* a mouse stroke in Write mode, the space key, and then a mouse stroke that
\* erases elsewhere: the paint is still there and only the erase slot is set
C19_Witness ==
    /\ step = "mouse:erase"
    /\ ~drawing_mode
    /\ Painted
    /\ last_erase_point # None
    /\ last_draw_point = None

---------------------------------------------------------------------------
(* C20 *)

\* C20: after the frame phase of a tick that reinitialized the canvas for a
\* new frame size, no cv2.line call was made, at most one disk was stamped,
\* and every pixel that is not BACKGROUND lies in the disk of radius
\* brush_size at this tick's cursor.
C20_ResizeTickDrawsNoLine ==
    (step = "frame" /\ \E i \in 1..Len(ops) : ops[i].op = "init")
    => /\ Lines = {}
       /\ Cardinality(Circles) <= 1
       /\ \A q \in DOMAIN canvas.px :
             canvas.px[q] # BACKGROUND
             => (hand # None /\ InDisk(q, hand, brush_size))

---------------------------------------------------------------------------
(* C21 *)

---------------------------------------------------------------------------
(* C22 *)

\* C22: EVENT_LBUTTONDOWN and EVENT_LBUTTONUP leave both slots None and the
\* canvas alone; a move without the left button changes neither canvas nor
\* slots; a move with it stamps the brush disk in Write mode and the eraser
\* disk in Erase mode at the pointer and records the pointer in that mode's
\* slot; a connecting line starts at that slot's old point and ends at the
\* pointer, and a slot is present only if handle_mouse recorded it after the
\* last button event, so that no line reaches back across a press or release.
C22_MouseStrokes ==
    [][ /\ step' \in {"mouse:down", "mouse:up"}
           => /\ last_draw_point' = None
              /\ last_erase_point' = None
              /\ ops' = <<>>
              /\ canvas' = canvas
        /\ step' = "mouse:move"
           => /\ ops' = <<>>
              /\ UNCHANGED <<canvas, last_draw_point, last_erase_point>>
        /\ step' = "mouse:draw"
           => /\ drawing_mode
              /\ CircleOp(hand_pos', brush_size, current_color) \in CirclesOf(ops')
              /\ last_draw_point' = hand_pos'
              /\ \A l \in LinesOf(ops') : l.p1 = last_draw_point /\ l.p2 = hand_pos'
        /\ step' = "mouse:erase"
           => /\ ~drawing_mode
              /\ CircleOp(hand_pos', eraser_size, BACKGROUND) \in CirclesOf(ops')
              /\ last_erase_point' = hand_pos'
              /\ \A l \in LinesOf(ops') : l.p1 = last_erase_point /\ l.p2 = hand_pos'
        /\ (step' \in {"mouse:draw", "mouse:erase"} /\ LinesOf(ops') # {})
           => in_stroke
        /\ (mouse_callback /\ (last_draw_point' # None \/ last_erase_point' # None))
           => in_stroke'
      ]_vars

\* the brush was stamped at (0,0), the button was released and pressed again,
\* and a move with the button held to (10,10), 14 px away, draws no line
C22_Witness ==
    /\ step = "mouse:down"
    /\ drawing_mode
    /\ hand_pos = <<0, 0>>
    /\ canvas.px[<<0, 0>>] = current_color
    /\ ENABLED (/\ MouseMove(<<10, 10>>, TRUE)
                /\ LinesOf(ops') = {}
                /\ last_draw_point' = <<10, 10>>)

---------------------------------------------------------------------------
(* C23 *)

\* the colour `n' places after DEFAULT_COLOR in the palette, counted cyclically
color_after(n) == colors[((1 + n) % 8) + 1]

\* the size `n' places after DEFAULT_BRUSH_SIZE in the list, counted cyclically
size_after(n) == sizes[((1 + n) % 6) + 1]

\* key presses handled so far in a session of SpecKeys
presses == IF pc = "keys" THEN ticks - 1 ELSE ticks

\* C23: the palette has 8 distinct colours and the size list is
\* 5, 8, 12, 20, 30, 50; after any run of 'c' and 's' presses current_color
\* is a palette colour and brush_size a size of the list, namely the ones as
\* many places further in cyclic order as the key was pressed, so that 8
\* presses of 'c' (6 of 's') give back the value they started from.
C23_CycleKeys ==
    /\ Len(colors) = 8
    /\ Cardinality({colors[i] : i \in 1..8}) = 8
    /\ {sizes[i] : i \in 1..Len(sizes)} = {5, 8, 12, 20, 30, 50}
    /\ Len(sizes) = 6
    /\ current_color \in {colors[i] : i \in 1..8}
    /\ brush_size \in {5, 8, 12, 20, 30, 50}
    /\ \E c \in 0..presses :
          /\ current_color = color_after(c)
          /\ brush_size = size_after(presses - c)
    \* six presses, the last one 's', and the colour as at the start: all six
    \* were 's'
    /\ (current_color = DEFAULT_COLOR /\ presses = 6 /\ step = "key:s")
       => brush_size = DEFAULT_BRUSH_SIZE

\* 'c' was pressed in each of 8 consecutive key phases and the colour is the
\* one the session started with
C23_Witness ==
    /\ step = "key:c"
    /\ ticks = 8
    /\ brush_size = DEFAULT_BRUSH_SIZE
    /\ current_color = DEFAULT_COLOR

====
